---- MODULE Spec2Model ----
(***************************************************************************)
(* Model of the Minol frame decoder, src/devices/minol.c (minol_decode).   *)
(*                                                                         *)
(* One call of minol_decode is a run of the program counter pc through the *)
(* statements of the function; the bitbuffer handed to the call is drawn   *)
(* in Init.  bitbuffer_search, bitbuffer_extract_bytes and crc16 live in   *)
(* bitbuffer.c / util.c, which are not part of the sources at hand: they   *)
(* are modelled from their documented behaviour.                           *)
(***************************************************************************)
EXTENDS Integers, Sequences, FiniteSets, TLC

VARIABLES
    num_rows,      \* bitbuffer->num_rows
    bb,            \* bitbuffer->bb[0]: the bytes of row 0, as a sequence
    bits_per_row,  \* bitbuffer->bits_per_row[0]
    fill,          \* the value of buffer bytes behind those listed in bb
    sent,          \* history: what the bitbuffer was built from
    pc,            \* the statement minol_decode is about to execute
    start_pos,     \* unsigned start_pos
    len,           \* uint8_t len
    frame,         \* uint8_t frame[256 + 2]
    i,             \* the loop counter of the two for loops
    crc_calc,      \* uint16_t crc_calc
    crc_recv,      \* uint16_t crc_recv
    payload_hex,   \* char payload_hex[256 * 2], as character codes
    ret,           \* the value returned, "none" while the call runs
    output,        \* the records handed to decoder_output_data
    steps,         \* history: the statements the call has been at, in order
    frameHi,       \* history: the highest index of frame read or written
    pnHi,          \* history: the highest index of pn9 read
    hexHi,         \* history: the highest index of payload_hex written
    bitHi,         \* history: the highest bit of the row an extraction read
    lfsr,          \* the PN9 generator's state (SpecPn9 only)
    prev           \* history: row and outcome of the call before (SpecSeq)

vars == <<num_rows, bb, bits_per_row, fill, sent, pc, start_pos, len, frame, i,
          crc_calc, crc_recv, payload_hex, ret, output, steps,
          frameHi, pnHi, hexHi, bitHi, lfsr, prev>>

----------------------------------------------------------------------------
(* Bounds of the model.                                                    *)

\* leading bits in front of the sync word: 0..MaxShift
MaxShift == 8
\* bits taken off the end of the row: 0..MaxCut
MaxCut == 8
\* payload lengths 0..MaxSmallLen, next to the maximum 255
MaxSmallLen == 2
\* num_rows ranges over 0..MaxRows
MaxRows == 2
\* rows without a sync word have 0..MaxNoiseBits bits
MaxNoiseBits == 40

----------------------------------------------------------------------------
(* C arithmetic.                                                           *)

RECURSIVE BitXor(_, _)
BitXor(a, b) ==
    IF a = 0 THEN b
    ELSE IF b = 0 THEN a
    ELSE ((a + b) % 2) + 2 * BitXor(a \div 2, b \div 2)

Max(a, b) == IF a >= b THEN a ELSE b

\* sizes of the three arrays
FrameSize == 258
Pn9Size == 256
HexSize == 512

\* a C array is a sequence; its element k, counted from 0 as in C
At(arr, k) == arr[k + 1]

\* arr with v stored at element k; a store outside the array is not modelled
Put(arr, k, v) == IF k + 1 \in DOMAIN arr THEN [arr EXCEPT ![k + 1] = v] ELSE arr

ZeroFrame == [k \in 1..FrameSize |-> 0]
ZeroHex == [k \in 1..HexSize |-> 0]

\* uint8_t const preamble[] = {0xd3, 0x91, 0xd3, 0x91}
preamble == <<211, 145, 211, 145>>

\* sizeof (preamble)
SizeofPreamble == Len(preamble)

\* uint8_t const pn9[256]
pn9_table ==
    << 255, 225,  29, 154, 237, 133,  51,  36,
       234, 122, 210,  57, 112, 151,  87,  10,
        84, 125,  45, 216, 109,  13, 186, 143,
       103,  89, 199, 162, 191,  52, 202,  24,
        48,  83, 147, 223, 146, 236, 167,  21,
       138, 220, 244, 134,  85,  78,  24,  33,
        64, 196, 196, 213, 198, 145, 138, 205,
       231, 209,  78,   9,  50,  23, 223, 131,
       255, 240,  14, 205, 246, 194,  25,  18,
       117,  61, 233,  28, 184, 203,  43,   5,
       170, 190,  22, 236, 182,   6, 221, 199,
       179, 172,  99, 209,  95,  26, 101,  12,
       152, 169, 201, 111,  73, 246, 211,  10,
        69, 110, 122, 195,  42,  39, 140,  16,
        32,  98, 226, 106, 227,  72, 197, 230,
       243, 104, 167,   4, 153, 139, 239, 193,
       127, 120, 135, 102, 123, 225,  12, 137,
       186, 158, 116,  14, 220, 229, 149,   2,
        85,  95,  11, 118,  91, 131, 238, 227,
        89, 214, 177, 232,  47, 141,  50,   6,
       204, 212, 228, 183,  36, 251, 105, 133,
        34,  55, 189,  97, 149,  19,  70,   8,
        16,  49, 113, 181, 113, 164,  98, 243,
       121, 180,  83, 130, 204, 197, 247, 224,
        63, 188,  67, 179, 189, 112, 134,  68,
        93,  79,  58,   7, 238, 242,  74, 129,
       170, 175,   5, 187, 173,  65, 247, 241,
        44, 235,  88, 244, 151,  70,  25,   3,
       102, 106, 242,  91, 146, 253, 180,  66,
       145, 155, 222, 176, 202,   9,  35,   4,
       136, 152, 184, 218,  56,  82, 177, 249,
        60, 218,  41,  65, 230, 226, 123, 240 >>

\* a faulty variant of pn9: the table read one entry too far
pn9_off_by_one(k) == pn9_table[((k + 1) % Pn9Size) + 1]

\* pn9[k], k counted from 0 as in C
pn9(k) == pn9_table[k + 1]

----------------------------------------------------------------------------
(* Library routines the decoder calls.                                     *)

\* the bit loop of crc16: n shifts of the remainder, MSB first
RECURSIVE crc16_bits(_, _, _)
crc16_bits(remainder, polynomial, n) ==
    IF n = 0 THEN remainder
    ELSE crc16_bits(IF remainder >= 32768
                    THEN BitXor((remainder * 2) % 65536, polynomial)
                    ELSE (remainder * 2) % 65536,
                    polynomial, n - 1)

\* the byte loop of crc16 over message[a..b], entered with remainder.  The
\* range is run as two halves, one after the other, and the remainder between
\* them is bound as a value (x), which keeps the evaluation shallow.
RECURSIVE crc16_range(_, _, _, _, _)
crc16_range(message, a, b, polynomial, remainder) ==
    IF a > b THEN remainder
    ELSE IF a = b
    THEN crc16_bits(BitXor(remainder, At(message, a) * 256), polynomial, 8)
    ELSE LET mid == (a + b) \div 2
         IN  CHOOSE r \in { crc16_range(message, mid + 1, b, polynomial, x) :
                            x \in {crc16_range(message, a, mid, polynomial, remainder)} } :
                 TRUE

\* uint16_t crc16(message, nBytes, polynomial, init)
crc16(message, nBytes, polynomial, init) ==
    crc16_range(message, 0, nBytes - 1, polynomial, init)

\* bitbuffer->bb[0][k]: a byte of the row's buffer, whatever bits_per_row says
RowByte(buf, fl, k) == IF k < Len(buf) THEN buf[k + 1] ELSE fl

\* the 8 bits of the buffer that start at bit pos, as a byte
ByteAtBit(buf, fl, pos) ==
    ((RowByte(buf, fl, pos \div 8) * 256 + RowByte(buf, fl, (pos \div 8) + 1))
        \div (2 ^ (8 - (pos % 8)))) % 256

\* bitbuffer_extract_bytes(bitbuffer, 0, pos, out, nbits): the bytes it stores
\* at out[0 .. nbits/8 - 1], as a sequence; it does not look at bits_per_row
bitbuffer_extract_bytes(buf, fl, pos, nbits) ==
    [k \in 1..(nbits \div 8) |-> ByteAtBit(buf, fl, pos + 8 * (k - 1))]

\* whether the pattern's bits stand at bit s of the buffer
PatternAt(buf, fl, s, pattern) ==
    \A k \in 0..(Len(pattern) - 1) : ByteAtBit(buf, fl, s + 8 * k) = pattern[k + 1]

\* the scan of bitbuffer_search from bit s on
RECURSIVE SearchFrom(_, _, _, _, _)
SearchFrom(buf, fl, nbits, s, pattern) ==
    IF s + 8 * Len(pattern) > nbits THEN nbits
    ELSE IF PatternAt(buf, fl, s, pattern) THEN s
    ELSE SearchFrom(buf, fl, nbits, s + 1, pattern)

\* bitbuffer_search(bitbuffer, 0, start, pattern, 8 * Len(pattern)): the bit
\* offset of the first match inside the row, bits_per_row[0] when there is none
bitbuffer_search(buf, fl, nbits, start, pattern) ==
    SearchFrom(buf, fl, nbits, start, pattern)

----------------------------------------------------------------------------
(* The rows handed to the decoder.                                         *)

\* uint8_t len holds 0..255
MaxLen == 255

\* the bits of a byte sequence, most significant bit first
Bits(bytes) ==
    [n \in 1..(8 * Len(bytes)) |->
        (bytes[((n - 1) \div 8) + 1] \div (2 ^ (7 - ((n - 1) % 8)))) % 2]

\* the first nbits of a bit sequence as bytes, the last byte padded with 0
Pack(bits, nbits) ==
    LET Bit(n) == IF n <= nbits /\ n <= Len(bits) THEN bits[n] ELSE 0
    IN  [b \in 1..((nbits + 7) \div 8) |->
            Bit(8*b - 7) * 128 + Bit(8*b - 6) * 64 + Bit(8*b - 5) * 32
          + Bit(8*b - 4) * 16 + Bit(8*b - 3) * 8 + Bit(8*b - 2) * 4
          + Bit(8*b - 1) * 2 + Bit(8*b)]

\* the last shift bits of the 0xaa bit-sync preamble
Lead(shift) == [n \in 1..shift |-> (shift - n + 1) % 2]

PayloadKinds == {"zero", "ramp"}

\* a payload of L bytes
Payload(kind, L) ==
    [k \in 1..L |-> IF kind = "zero" THEN 0 ELSE (85 * k + 1) % 256]

\* the frame a transmitter sends for payload P: sync word, length, whitened
\* payload, CRC-16 of length and payload, high byte first; delta is added to
\* the last CRC byte
EncodeFrame(P, delta) ==
    LET L == Len(P)
        c == crc16(<<L>> \o P, L + 1, 32773, 65535)
    IN  preamble \o <<L>> \o [k \in 1..L |-> BitXor(P[k], pn9(k - 1))]
                 \o <<c \div 256, ((c % 256) + delta) % 256>>

\* a frame that follows the sync word and length byte with F[1] as it is,
\* F[2..] whitened with pn9[0..], and the CRC-16 of F alone, whose high byte
\* is whitened with the next table entry
AliasFrame(F) ==
    LET L == Len(F)
        c == crc16(F, L, 32773, 65535)
    IN  preamble \o <<L>>
        \o [k \in 1..L |-> IF k = 1 THEN F[1] ELSE BitXor(F[k], pn9(k - 2))]
        \o <<IF L = 0 THEN c \div 256 ELSE BitXor(c \div 256, pn9(L - 1)), c % 256>>

FrameKinds == {"good", "bad", "alias"}

FrameBytes(fk, P) ==
    IF fk = "alias" THEN AliasFrame(P)
    ELSE EncodeFrame(P, IF fk = "bad" THEN 1 ELSE 0)

\* a bitbuffer: shift bits of bit-sync, the frame, cut bits taken off the
\* end; behind bits_per_row the buffer is zero, or (stale) holds what was
\* there before
MakeRow(fk, kind, L, shift, cut, stale, rows) ==
    LET P     == Payload(kind, L)
        bytes == FrameBytes(fk, P)
        all   == Lead(shift) \o Bits(bytes)
        nbits == IF Len(all) >= cut THEN Len(all) - cut ELSE 0
    IN  [ num_rows |-> rows,
          bb       |-> IF shift = 0 /\ (stale \/ cut = 0) THEN bytes
                       ELSE Pack(all, IF stale THEN Len(all) ELSE nbits),
          bits     |-> nbits,
          fill     |-> IF stale THEN 255 ELSE 0,
          sent     |-> [ kind |-> fk, P |-> P, shift |-> shift, cut |-> cut,
                         stale |-> stale ] ]

\* a row of nbits bits cut from the sync word (whole, or with its last bit
\* flipped) followed by zeros
NoiseRow(whole, nbits) ==
    [ num_rows |-> 1,
      bb       |-> Pack(Bits((IF whole THEN preamble ELSE <<211, 145, 211, 144>>)
                             \o <<0, 0>>), nbits),
      bits     |-> nbits,
      fill     |-> 0,
      sent     |-> [ kind |-> "noise", P |-> <<>>, shift |-> 0, cut |-> 0,
                     stale |-> FALSE ] ]

SmallRows ==
    { MakeRow(fk, kind, L, shift, cut, stale, 1) :
        fk \in FrameKinds, kind \in PayloadKinds, L \in 0..MaxSmallLen,
        shift \in 0..MaxShift, cut \in 0..MaxCut, stale \in BOOLEAN }

LongRows ==
    { MakeRow(fk, "ramp", MaxLen, 0, cut, FALSE, 1) :
        fk \in {"good", "alias"}, cut \in {0, 1} }

MultiRows ==
    { MakeRow("good", "zero", L, 0, 0, FALSE, rows) :
        L \in 0..MaxSmallLen, rows \in (0..MaxRows) \ {1} }

NoiseRows == { NoiseRow(whole, nbits) : whole \in BOOLEAN, nbits \in 0..MaxNoiseBits }

Inputs == SmallRows \cup LongRows \cup MultiRows \cup NoiseRows

----------------------------------------------------------------------------
(* minol_decode.                                                           *)

DECODE_ABORT_EARLY == "DECODE_ABORT_EARLY"
DECODE_ABORT_LENGTH == "DECODE_ABORT_LENGTH"
DECODE_FAIL_MIC == "DECODE_FAIL_MIC"
\* return 1
DECODE_OK == "1"

\* the statements of the function, in program order
Order == << "rows", "search", "sync", "minlen", "getlen", "getframe",
            "dewhiten", "crc", "hex", "emit", "done" >>

\* a faulty variant of NoPreamble: the sentinel is never recognised
NoPreamble_never(sp, nbits) == sp > nbits

\* start_pos == bitbuffer->bits_per_row[row]
NoPreamble(sp, nbits) == sp = nbits

\* (sizeof (preamble) + 1 /* len */ + 2 /* crc */) * 8
MinBits == (SizeofPreamble + 1 + 2) * 8

\* a faulty variant of FrameBits: two bytes more than frame was sized for
FrameBits_wide(l) == (l + 4) * 8

\* (len + 2) * 8, the number of bits extracted into frame
FrameBits(l) == (l + 2) * 8

\* the index of frame at which the extraction stores its first byte
FrameDest == 0

\* a faulty variant of CrcMismatch: the comparison is lost
CrcMismatch_never(recv, calc) == FALSE

\* crc_recv != crc_calc
CrcMismatch(recv, calc) == recv /= calc

\* the two characters "%02x" prints for a byte, lowercase
HexDigit(n) == IF n < 10 THEN 48 + n ELSE 87 + n

\* the C string held in a char buffer: the characters before the first NUL
CString(buf) ==
    LET nuls == {k \in 0..(Len(buf) - 1) : At(buf, k) = 0}
        n    == IF nuls = {} THEN Len(buf)
                ELSE CHOOSE k \in nuls : \A j \in nuls : k <= j
    IN  [k \in 1..n |-> At(buf, k - 1)]

\* leaving the statement at pc for statement to
Goto(to) ==
    /\ pc' = to
    /\ steps' = Append(steps, to)

Return(code) ==
    /\ ret' = code
    /\ Goto("done")

\* lines 44-46
CheckRows ==
    /\ pc = "rows"
    /\ IF num_rows /= 1
       THEN Return(DECODE_ABORT_EARLY)
       ELSE Goto("search") /\ UNCHANGED ret
    /\ UNCHANGED <<num_rows, bb, bits_per_row, fill, sent, start_pos, len, frame,
                   i, crc_calc, crc_recv, payload_hex, output,
                   frameHi, pnHi, hexHi, bitHi, lfsr, prev>>

\* lines 48-50
Search ==
    /\ pc = "search"
    /\ start_pos' = bitbuffer_search(bb, fill, bits_per_row, 0, preamble)
    /\ Goto("sync")
    /\ UNCHANGED <<num_rows, bb, bits_per_row, fill, sent, len, frame,
                   i, crc_calc, crc_recv, payload_hex, ret, output,
                   frameHi, pnHi, hexHi, bitHi, lfsr, prev>>

\* lines 52-54
CheckSync ==
    /\ pc = "sync"
    /\ IF NoPreamble(start_pos, bits_per_row)
       THEN Return(DECODE_ABORT_EARLY)
       ELSE Goto("minlen") /\ UNCHANGED ret
    /\ UNCHANGED <<num_rows, bb, bits_per_row, fill, sent, start_pos, len, frame,
                   i, crc_calc, crc_recv, payload_hex, output,
                   frameHi, pnHi, hexHi, bitHi, lfsr, prev>>

\* lines 56-59
CheckMinLen ==
    /\ pc = "minlen"
    /\ IF bits_per_row < MinBits
       THEN Return(DECODE_ABORT_LENGTH)
       ELSE Goto("getlen") /\ UNCHANGED ret
    /\ UNCHANGED <<num_rows, bb, bits_per_row, fill, sent, start_pos, len, frame,
                   i, crc_calc, crc_recv, payload_hex, output,
                   frameHi, pnHi, hexHi, bitHi, lfsr, prev>>

\* lines 61-62
ExtractLen ==
    /\ pc = "getlen"
    /\ LET pos == start_pos + SizeofPreamble * 8
       IN  /\ len' = At(bitbuffer_extract_bytes(bb, fill, pos, 8), 0)
           /\ bitHi' = Max(bitHi, pos + 7)
    /\ Goto("getframe")
    /\ UNCHANGED <<num_rows, bb, bits_per_row, fill, sent, start_pos, frame,
                   i, crc_calc, crc_recv, payload_hex, ret, output,
                   frameHi, pnHi, hexHi, lfsr, prev>>

\* lines 64-68, and the i = 0 of line 106
ExtractFrame ==
    /\ pc = "getframe"
    /\ LET pos    == start_pos + (SizeofPreamble + 1) * 8
           nbits  == FrameBits(len)
           got    == bitbuffer_extract_bytes(bb, fill, pos, nbits)
           nbytes == nbits \div 8
       IN  /\ frame' = [n \in 1..FrameSize |->
                           LET k == n - 1
                           IN  IF k >= FrameDest /\ k < FrameDest + nbytes
                               THEN At(got, k - FrameDest)
                               ELSE IF k = 0 THEN len ELSE 0]
           /\ frameHi' = Max(frameHi, FrameDest + nbytes - 1)
           /\ bitHi' = Max(bitHi, pos + nbits - 1)
    /\ i' = 0
    /\ Goto("dewhiten")
    /\ UNCHANGED <<num_rows, bb, bits_per_row, fill, sent, start_pos, len,
                   crc_calc, crc_recv, payload_hex, ret, output,
                   pnHi, hexHi, lfsr, prev>>

\* lines 106-108, one pass of the loop
Dewhiten ==
    /\ pc = "dewhiten"
    /\ IF i < len
       THEN /\ frame' = Put(frame, i + 1, BitXor(At(frame, i + 1), pn9(i)))
            /\ frameHi' = Max(frameHi, i + 1)
            /\ pnHi' = Max(pnHi, i)
            /\ i' = i + 1
            /\ UNCHANGED <<pc, steps>>
       ELSE /\ Goto("crc")
            /\ UNCHANGED <<frame, frameHi, pnHi, i>>
    /\ UNCHANGED <<num_rows, bb, bits_per_row, fill, sent, start_pos, len,
                   crc_calc, crc_recv, payload_hex, ret, output,
                   hexHi, bitHi, lfsr, prev>>

\* lines 110-120, and the i = 0 of line 121
Crc ==
    /\ pc = "crc"
    /\ crc_calc' = crc16(frame, len + 1, 32773, 65535)
    /\ crc_recv' = At(frame, len + 1) * 256 + At(frame, len + 2)
    /\ frameHi' = Max(frameHi, len + 2)
    /\ IF CrcMismatch(crc_recv', crc_calc')
       THEN /\ Return(DECODE_FAIL_MIC)
            /\ UNCHANGED <<payload_hex, i>>
       ELSE /\ payload_hex' = ZeroHex
            /\ i' = 0
            /\ Goto("hex")
            /\ UNCHANGED ret
    /\ UNCHANGED <<num_rows, bb, bits_per_row, fill, sent, start_pos, len, frame,
                   output, pnHi, hexHi, bitHi, lfsr, prev>>

\* lines 121-122, one pass of the loop
Hex ==
    /\ pc = "hex"
    /\ IF i < len
       THEN /\ payload_hex' =
                   Put(Put(Put(payload_hex,
                               i * 2,     HexDigit(At(frame, i + 1) \div 16)),
                               i * 2 + 1, HexDigit(At(frame, i + 1) % 16)),
                               i * 2 + 2, 0)
            /\ hexHi' = Max(hexHi, i * 2 + 2)
            /\ frameHi' = Max(frameHi, i + 1)
            /\ i' = i + 1
            /\ UNCHANGED <<pc, steps>>
       ELSE /\ Goto("emit")
            /\ UNCHANGED <<payload_hex, hexHi, frameHi, i>>
    /\ UNCHANGED <<num_rows, bb, bits_per_row, fill, sent, start_pos, len, frame,
                   crc_calc, crc_recv, ret, output, pnHi, bitHi, lfsr, prev>>

\* lines 125-132
Emit ==
    /\ pc = "emit"
    /\ output' = Append(output, [ model |-> "Minol",
                                  raw   |-> CString(payload_hex),
                                  mic   |-> "CRC" ])
    /\ Return(DECODE_OK)
    /\ UNCHANGED <<num_rows, bb, bits_per_row, fill, sent, start_pos, len, frame,
                   i, crc_calc, crc_recv, payload_hex,
                   frameHi, pnHi, hexHi, bitHi, lfsr, prev>>

\* the call of minol_decode on bitbuffer in: the locals hold nothing yet
Init ==
    \E in \in Inputs :
        /\ num_rows = in.num_rows
        /\ bb = in.bb
        /\ bits_per_row = in.bits
        /\ fill = in.fill
        /\ sent = in.sent
        /\ pc = "rows"
        /\ start_pos = 0
        /\ len = 0
        /\ frame = ZeroFrame
        /\ i = 0
        /\ crc_calc = 0
        /\ crc_recv = 0
        /\ payload_hex = ZeroHex
        /\ ret = "none"
        /\ output = <<>>
        /\ steps = <<"rows">>
        /\ frameHi = -1
        /\ pnHi = -1
        /\ hexHi = -1
        /\ bitHi = -1
        /\ lfsr = 0
        /\ prev = <<>>

Next ==
    \/ CheckRows
    \/ Search
    \/ CheckSync
    \/ CheckMinLen
    \/ ExtractLen
    \/ ExtractFrame
    \/ Dewhiten
    \/ Crc
    \/ Hex
    \/ Emit

Spec == Init /\ [][Next]_vars

----------------------------------------------------------------------------
(* Calls in sequence: after a call has returned, the decoder is called on  *)
(* the next bitbuffer.  The locals are on the stack: they start the next   *)
(* call holding whatever the call before left in them.                     *)

\* bit n of the row's buffer, counted from 0
RowBit(buf, fl, n) == (RowByte(buf, fl, n \div 8) \div (2 ^ (7 - (n % 8)))) % 2

\* the row as the bitbuffer defines it: bits 0 .. bits_per_row - 1
Visible(buf, fl, nbits) == [n \in 1..nbits |-> RowBit(buf, fl, n - 1)]

SeqInputs ==
    { MakeRow(fk, kind, L, 0, cut, stale, 1) :
        fk \in {"good", "alias"}, kind \in PayloadKinds, L \in 0..1,
        cut \in 0..2, stale \in BOOLEAN }
    \cup { MakeRow("good", "zero", 0, 0, 0, FALSE, 2), NoiseRow(FALSE, 40) }

Load(in) ==
    /\ num_rows' = in.num_rows
    /\ bb' = in.bb
    /\ bits_per_row' = in.bits
    /\ fill' = in.fill
    /\ sent' = in.sent

NextCall ==
    /\ pc = "done"
    /\ prev = <<>>
    /\ \E in \in SeqInputs : Load(in)
    /\ prev' = << [ rows   |-> num_rows,
                    bits   |-> bits_per_row,
                    row    |-> Visible(bb, fill, bits_per_row),
                    ret    |-> ret,
                    output |-> output ] >>
    /\ pc' = "rows"
    /\ steps' = <<"rows">>
    /\ ret' = "none"
    /\ output' = <<>>
    /\ frameHi' = -1
    /\ pnHi' = -1
    /\ hexHi' = -1
    /\ bitHi' = -1
    /\ UNCHANGED <<start_pos, len, frame, i, crc_calc, crc_recv, payload_hex, lfsr>>

InitSeq ==
    /\ \E in \in SeqInputs :
          /\ num_rows = in.num_rows
          /\ bb = in.bb
          /\ bits_per_row = in.bits
          /\ fill = in.fill
          /\ sent = in.sent
    /\ pc = "rows"
    /\ start_pos = 0
    /\ len = 0
    /\ frame = ZeroFrame
    /\ i = 0
    /\ crc_calc = 0
    /\ crc_recv = 0
    /\ payload_hex = ZeroHex
    /\ ret = "none"
    /\ output = <<>>
    /\ steps = <<"rows">>
    /\ frameHi = -1
    /\ pnHi = -1
    /\ hexHi = -1
    /\ bitHi = -1
    /\ lfsr = 0
    /\ prev = <<>>

NextSeq ==
    \/ CheckRows
    \/ Search
    \/ CheckSync
    \/ CheckMinLen
    \/ ExtractLen
    \/ ExtractFrame
    \/ Dewhiten
    \/ Crc
    \/ Hex
    \/ Emit
    \/ NextCall

SpecSeq == InitSeq /\ [][NextSeq]_vars

----------------------------------------------------------------------------
(* The PN9 generator the table is said to come from: a 9-bit LFSR,         *)
(* x^9 + x^5 + 1, started at 0x1ff; one output byte per 8 shifts.          *)

\* one shift: s := (s >> 1) | (((s ^ (s >> 5)) & 1) << 8)
LfsrShift(s) == (s \div 2) + 256 * ((s + (s \div 32)) % 2)

RECURSIVE LfsrShifts(_, _)
LfsrShifts(s, n) == IF n = 0 THEN s ELSE LfsrShifts(LfsrShift(s), n - 1)

InitPn9 ==
    /\ pc = "pn9"
    /\ i = 0
    /\ lfsr = 511
    /\ num_rows = 0
    /\ bb = <<>>
    /\ bits_per_row = 0
    /\ fill = 0
    /\ sent = [ kind |-> "none", P |-> <<>>, shift |-> 0, cut |-> 0, stale |-> FALSE ]
    /\ start_pos = 0
    /\ len = 0
    /\ frame = ZeroFrame
    /\ crc_calc = 0
    /\ crc_recv = 0
    /\ payload_hex = ZeroHex
    /\ ret = "none"
    /\ output = <<>>
    /\ steps = <<>>
    /\ frameHi = -1
    /\ pnHi = -1
    /\ hexHi = -1
    /\ bitHi = -1
    /\ prev = <<>>

\* the generator produces its next byte
NextByte ==
    /\ pc = "pn9"
    /\ i < Pn9Size - 1
    /\ i' = i + 1
    /\ lfsr' = LfsrShifts(lfsr, 8)
    /\ UNCHANGED <<num_rows, bb, bits_per_row, fill, sent, pc, start_pos, len,
                   frame, crc_calc, crc_recv, payload_hex, ret, output, steps,
                   frameHi, pnHi, hexHi, bitHi, prev>>

NextPn9 == NextByte

SpecPn9 == InitPn9 /\ [][NextPn9]_vars

----------------------------------------------------------------------------
(* What the claims speak of.                                               *)

\* whether the call has been at statement st and left it
Performed(st) == \E n \in 1..(Len(steps) - 1) : steps[n] = st

\* whether the call has reached statement st
Reached(st) == \E n \in 1..Len(steps) : steps[n] = st

\* bit n of the sync word 0xd391d391, counted from its first bit
SyncBit(n) == (preamble[(n \div 8) + 1] \div (2 ^ (7 - (n % 8)))) % 2

\* whether the 32 bits of the sync word stand somewhere inside the row
HasSync ==
    \E s \in 0..(bits_per_row - 32) :
        \A n \in 0..31 : RowBit(bb, fill, s + n) = SyncBit(n)

\* the byte the stream holds at bit offset off behind the first sync match
StreamByte(off) == ByteAtBit(bb, fill, start_pos + off)

\* the length byte of the stream
StreamLen == StreamByte(32)

\* payload byte k (from 0) of the stream, de-whitened
StreamPayload(k) == BitXor(StreamByte(40 + 8 * k), pn9_table[k + 1])

\* the checksum the stream carries behind a payload of L bytes, big-endian
StreamCrc(L) == StreamByte(40 + 8 * L) * 256 + StreamByte(48 + 8 * L)

\* the CRC-16 of the stream's length byte and de-whitened payload
ExpectedCrc(L) ==
    crc16([n \in 1..(L + 1) |-> IF n = 1 THEN L ELSE StreamPayload(n - 2)],
          L + 1, 32773, 65535)

\* "0123456789abcdef"
HexChars == <<48, 49, 50, 51, 52, 53, 54, 55, 56, 57, 97, 98, 99, 100, 101, 102>>

\* the lowercase hex of a byte sequence, two characters per byte
LowerHex(P) ==
    [n \in 1..(2 * Len(P)) |->
        IF n % 2 = 1 THEN HexChars[(P[(n + 1) \div 2] \div 16) + 1]
        ELSE HexChars[(P[n \div 2] % 16) + 1]]

\* the row is exactly the frame a transmitter sends for payload sent.P
IsEncodedRow ==
    /\ num_rows = 1
    /\ sent.kind = "good"
    /\ bb = EncodeFrame(sent.P, 0)
    /\ bits_per_row = 8 * Len(bb)

----------------------------------------------------------------------------
(* The claims.                                                             *)

\* C1: a row that is exactly sync word, length L, whitened payload P and the
\* CRC-16 of [L] ++ P decodes with return 1 and one record whose payload is
\* the lowercase hex of P.
C1_EncodedFrameDecodes ==
    (pc = "done" /\ IsEncodedRow)
        => /\ ret = DECODE_OK
           /\ Len(output) = 1
           /\ output[1].raw = LowerHex(sent.P)

\* C2: whenever a record is emitted, the CRC-16 over the stream's length byte
\* and its L de-whitened payload bytes equals the two bytes that follow the
\* payload in the stream, high byte first.
C2_RecordOnlyForValidCrc ==
    output /= <<>> => ExpectedCrc(StreamLen) = StreamCrc(StreamLen)

\* C3: when the sync word is found and the row has fewer than
\* 32 + 8 + 8*L + 16 bits, the call returns DECODE_ABORT_LENGTH and never
\* extracts the frame.
C3_SecondLengthCheck ==
    (num_rows = 1 /\ HasSync /\ Reached("minlen")
     /\ bits_per_row < 32 + 8 + 8 * StreamLen + 16)
        => /\ ~Performed("getframe")
           /\ pc = "done" => ret = DECODE_ABORT_LENGTH

\* C4: after the de-whitening loop, frame holds the length byte as read, the
\* payload bytes each XORed with its table entry, and the two checksum bytes
\* as read.
C4_DewhitenOnlyPayload ==
    pc = "crc"
        => /\ At(frame, 0) = StreamLen
           /\ \A k \in 0..(len - 1) : At(frame, k + 1) = StreamPayload(k)
           /\ At(frame, len + 1) = StreamByte(40 + 8 * len)
           /\ At(frame, len + 2) = StreamByte(48 + 8 * len)

\* C5: a single row that holds the sync word at no bit offset is rejected
\* with DECODE_ABORT_EARLY at the sync check: the call never gets to the
\* length check or to an extraction, and emits nothing.
C5_NoSyncAbortsEarly ==
    (num_rows = 1 /\ ~HasSync)
        => /\ \A n \in 1..Len(steps) : steps[n] \in {"rows", "search", "sync", "done"}
           /\ output = <<>>
           /\ pc = "done" => ret = DECODE_ABORT_EARLY

C5_Witness ==
    /\ pc = "done"
    /\ num_rows = 1
    /\ ~HasSync
    /\ bits_per_row = 40
    /\ ret = DECODE_ABORT_EARLY

\* C6: two calls on single rows with the same bit count and the same bits inside the
\* row have the same outcome, whatever was decoded before and whatever the
\* buffer holds behind the row.
C6_SameRowSameOutcome ==
    (pc = "done" /\ prev /= <<>>
     /\ prev[1].rows = 1 /\ num_rows = 1
     /\ prev[1].bits = bits_per_row
     /\ prev[1].row = Visible(bb, fill, bits_per_row))
        => /\ prev[1].ret = ret
           /\ prev[1].output = output

\* C7: the call moves through its statements in program order, each failing
\* check returns at once with its code, and a record is output, once, exactly
\* when the call returns 1, which is after the row-count, sync, length and
\* checksum checks have passed.
C7_LinearFailFast ==
    /\ steps[1] = "rows"
    /\ \A n \in 1..(Len(steps) - 1) :
          \E a \in 1..Len(Order) :
             /\ steps[n] = Order[a]
             /\ steps[n] /= "done"
             /\ \/ steps[n + 1] = Order[a + 1]
                \/ /\ steps[n + 1] = "done"
                   /\ ret = CASE steps[n] = "rows"   -> DECODE_ABORT_EARLY
                              [] steps[n] = "sync"   -> DECODE_ABORT_EARLY
                              [] steps[n] = "minlen" -> DECODE_ABORT_LENGTH
                              [] steps[n] = "crc"    -> DECODE_FAIL_MIC
                              [] OTHER               -> DECODE_OK
    /\ pc = steps[Len(steps)]
    /\ pc /= "done" => (ret = "none" /\ output = <<>>)
    /\ pc = "done" => (ret /= "none" /\ (Len(output) = 1 <=> ret = DECODE_OK))
    /\ Len(output) <= 1
    /\ output /= <<>>
          => /\ num_rows = 1
             /\ start_pos /= bits_per_row
             /\ bits_per_row >= 56
             /\ crc_recv = crc_calc
             /\ Performed("emit")

C7_Witness ==
    /\ pc = "done"
    /\ ret = DECODE_OK
    /\ Len(output) = 1
    /\ len = 2
    /\ steps = Order

\* C8: every index into frame, pn9 and payload_hex stays inside its array.
C8_IndicesInBounds ==
    /\ frameHi < FrameSize
    /\ pnHi < Pn9Size
    /\ hexHi < HexSize
    /\ len <= MaxLen

C8_Witness ==
    /\ pc = "done"
    /\ ret = DECODE_OK
    /\ len = MaxLen
    /\ frameHi = FrameSize - 1
    /\ pnHi = MaxLen - 1
    /\ hexHi = 2 * MaxLen

\* C9: every bit the extractions read lies inside the row, and once the
\* minimum-length check has passed, length byte and checksum lie inside it.
C9_ReadsInsideRow ==
    /\ bitHi < bits_per_row
    /\ Performed("minlen") /\ Reached("getlen")
          => start_pos + 32 + 8 + 16 <= bits_per_row

\* C10: pn9[i] is the low byte of the PN9 generator's state after 8*i shifts
\* from 0x1ff, for i in 0..255.
C10_TableIsPn9 ==
    pc = "pn9" => pn9(i) = lfsr % 256

C10_Witness ==
    /\ pc = "pn9"
    /\ i = Pn9Size - 1
    /\ pn9(i) = 240

====
